---- MODULE Spec2Model ----
(***************************************************************************)
(* Model of internal/tools/duckdbsql/duckdbsql.go: the duckdb-sql tool.    *)
(*                                                                         *)
(* Config.Initialize binds a configuration to a source and builds a Tool;  *)
(* Tool.Invoke resolves template parameters, extracts standard parameters, *)
(* runs the query on the shared sql.DB and turns  the rows of the cursor   *)
(* into a []any of map[string]interface{}.                                 *)
(*                                                                         *)
(* The database/sql cursor, sql.Rows, is the environment: whether          *)
(* QueryContext, Columns, Scan, Next and Close fail is chosen              *)
(* nondeterministically.  Every invocation i \in Inv has its own copy of   *)
(* Invoke's locals.                                                        *)
(*                                                                         *)
(* Spec runs the invocations one after the other, with calls of Manifest,  *)
(* McpManifest, Authorized and ParseParams in between; SpecIdem repeats    *)
(* invocations of one tool and keeps the last result; SpecConc interleaves *)
(* the steps of invocations that overlap.                                  *)
(***************************************************************************)
EXTENDS Integers, Sequences, FiniteSets, TLC

\* ------------------------------------------------------------------ bounds
NumInv == 2        \* invocation slots
MaxCols == 2       \* columns of a result set
MaxRows == 2       \* rows of a result set
MaxCells == 4      \* cells (rows times columns) of a result set

Inv == 1..NumInv

\* ------------------------------------------------------------ value spaces
Nil == "nil"                      \* Go nil inside an `any` (SQL NULL after Scan)
CellValues == {Nil, "v"}          \* what Scan can store in one cell
ColNames == {"a", "b"}
TplNames == {"t"}                 \* names usable for template parameters
ArgValues == {"x", "y"}           \* input values of standard parameters
TplValues == {"t1"}               \* input values of template parameters

\* the source kind this tool accepts
kind == "duckdb-sql"
compatibleSources == <<"duckdb">>

\* error prefixes of Config.Initialize and Tool.Invoke (fmt.Errorf texts);
\* the spec's names are given on the right
NoErr == "nil"
ErrNoSource == "no source named"                        \* SourceNotFound
ErrInvalidSource == "invalid source for tool"           \* IncompatibleSource
ErrTemplate == "unable to extract template params"      \* TemplateResolutionError
ErrStandard == "unable to extract standard params"      \* ParameterValidationError
ErrExecute == "unable to execute query"                 \* QueryExecutionError
ErrColumns == "unable to get column names"              \* ResultMetadataError
ErrScan == "unable to scan row"                         \* RowScanError
ErrClose == "unable to close rows"                      \* ResultCloseError
ErrIter == "error iterating rows"                       \* RowIterationError

\* ------------------------------------------------------------- sequences
RECURSIVE SeqsUpTo(_, _)
\* all sequences over S of length at most n
SeqsUpTo(S, n) ==
    IF n = 0 THEN {<<>>}
    ELSE LET shorter == SeqsUpTo(S, n - 1)
         IN shorter \cup {Append(s, x) : s \in {t \in shorter : Len(t) = n - 1}, x \in S}

SeqsOfLen(S, n) == {s \in SeqsUpTo(S, n) : Len(s) = n}

Range(s) == {s[k] : k \in DOMAIN s}

Distinct(s) == \A j, k \in DOMAIN s : j # k => s[j] # s[k]

\* ------------------------------------------------------------- Go values
\* a Go map is a function on its key set; it keeps no order of its keys, so
\* ranging over it can produce them in any order
KeyOrders(m) == {o \in SeqsOfLen(DOMAIN m, Cardinality(DOMAIN m)) : Distinct(o)}

EmptyMap == [x \in {} |-> Nil]

MapSet(m, k, v) == [x \in (DOMAIN m) \cup {k} |-> IF x = k THEN v ELSE m[x]]

\* the (any, error) first component: the untyped nil interface, a nil
\* []any (var result []any), or a non-nil []any
NilAny == [kind |-> "nil", items |-> <<>>]
NilSlice == [kind |-> "nilslice", items |-> <<>>]
GoPrepend(s, x) == [kind |-> "slice", items |-> <<x>> \o s.items]
GoAppend(s, x) == [kind |-> "slice", items |-> Append(s.items, x)]

\* ------------------------------------------- parameters (package tools)
\* a tools.Parameter definition
ParamDef(n, req) == [name |-> n, required |-> req]

Names(defs) == [k \in DOMAIN defs |-> defs[k].name]

\* tools.ParamValues is a list of (name, value); AsMap keys it by name,
\* a later pair replacing an earlier one of the same name
RECURSIVE AsMapLoop(_, _, _)
AsMapLoop(m, params, k) ==
    IF k > Len(params) THEN m
    ELSE AsMapLoop(MapSet(m, params[k].name, params[k].value), params, k + 1)

AsMap(params) == AsMapLoop(EmptyMap, params, 1)

\* AsSlice keeps the values in the order of the list
AsSlice(params) == [k \in DOMAIN params |-> params[k].value]

RECURSIVE GetParamsLoop(_, _, _, _)
GetParamsLoop(acc, defs, paramsMap, k) ==
    IF k > Len(defs) THEN [ok |-> TRUE, values |-> acc]
    ELSE LET d == defs[k]
         IN IF d.name \in DOMAIN paramsMap
            THEN GetParamsLoop(Append(acc, [name |-> d.name, value |-> paramsMap[d.name]]),
                               defs, paramsMap, k + 1)
            ELSE IF d.required
                 THEN [ok |-> FALSE, values |-> <<>>]
                 ELSE GetParamsLoop(Append(acc, [name |-> d.name, value |-> Nil]),
                                    defs, paramsMap, k + 1)

\* tools.GetParams: the values of the declared parameters, in declaration
\* order; fails when a required one is missing from the input map
GetParams(defs, paramsMap) == GetParamsLoop(<<>>, defs, paramsMap, 1)

\* a statement is a list of tokens: literal text or a template marker
Lit(s) == [tok |-> "lit", text |-> s]
Marker(n) == [tok |-> "marker", text |-> n]

\* tools.ResolveTemplateParams: the statement with every marker replaced by
\* the text of its template parameter's value; fails when a required template
\* parameter is missing or a marker names no declared template parameter
ResolveTemplateParams(templateParams, statement, paramsMap) ==
    LET got == GetParams(templateParams, paramsMap)
        tmap == AsMap(got.values)
        declared == \A k \in DOMAIN statement :
                        statement[k].tok = "marker" => statement[k].text \in DOMAIN tmap
    IN IF ~got.ok \/ ~declared
       THEN [ok |-> FALSE, stmt |-> <<>>]
       ELSE [ok |-> TRUE,
             stmt |-> [k \in DOMAIN statement |->
                          IF statement[k].tok = "marker"
                          THEN tmap[statement[k].text]
                          ELSE statement[k].text]]

\* tools.ProcessParameters: all parameters and the two parameter manifests,
\* each listing every declared parameter once in declaration order
ProcessParameters(templateParams, params) ==
    LET all == params \o templateParams
    IN [allParameters |-> all,
        paramManifest |-> [k \in DOMAIN all |->
                              [name |-> all[k].name, required |-> all[k].required]],
        paramMcpManifest |-> [properties |-> Names(all),
                              required |-> Names(SelectSeq(all, LAMBDA d : d.required))]]

\* tools.IsAuthorized: every required authorization service is among the
\* verified ones
IsAuthorized(authRequired, verifiedAuthSources) ==
    Range(authRequired) \subseteq Range(verifiedAuthSources)

\* -------------------------------------------------------- configuration
\* the sources the server has configured: a duckdb source, which has the
\* DuckDb() method, and a source of another kind, which has not
srcs == [duck |-> [kind |-> "duckdb", db |-> "duck.db"],
         pg |-> [kind |-> "postgres", db |-> "pg.pool"]]

SourceNames == {"duck", "pg", "absent"}

\* the zero value a map lookup gives for a missing key: the nil Source
NilSource == [kind |-> Nil, db |-> Nil]

\* rawS, ok := srcs[name]
Lookup(m, name) ==
    IF name \in DOMAIN m THEN [rawS |-> m[name], ok |-> TRUE]
    ELSE [rawS |-> NilSource, ok |-> FALSE]

\* rawS.(compatibleSource): the source has a DuckDb() method; the assertion
\* fails on the nil Source
compatibleSource(rawS) == rawS.kind \in Range(compatibleSources)

StdDefs == {ParamDef("p", TRUE), ParamDef("q", FALSE)}
TplDefs == {ParamDef("t", TRUE)}

Statements == {<<Lit("select"), Marker("t")>>, <<Lit("select"), Lit("tbl")>>}

\* the configurations newConfig can decode
Configs ==
    [Name : {"tool"}, Kind : {kind}, Source : SourceNames,
     Description : {"descr"}, Statement : Statements, AuthRequired : {<<"auth">>},
     Parameters : {d \in SeqsUpTo(StdDefs, Cardinality(StdDefs)) : Distinct(Names(d))},
     TemplateParameters : {d \in SeqsUpTo(TplDefs, Cardinality(TplDefs)) : Distinct(Names(d))}]

\* Initialize's first result when it fails
NilTool == [Name |-> Nil]

\* ----------------------------------------------------- inputs of Invoke
ParamOrder == <<"p", "q", "t">>
Absent == "-"

\* the ParamValues the host can pass: a value or nothing for every name
Inputs ==
    {SelectSeq([k \in DOMAIN ParamOrder |-> [name |-> ParamOrder[k], value |-> f[k]]],
               LAMBDA e : e.value # Absent) :
        f \in {g \in [DOMAIN ParamOrder -> ArgValues \cup TplValues \cup {Absent}] :
                  \A k \in DOMAIN ParamOrder :
                      g[k] \in (IF ParamOrder[k] \in TplNames THEN TplValues ELSE ArgValues)
                                   \cup {Absent}}}

\* -------------------------------------------------- results of a query
\* the column lists of the results: a first column "a" and any further ones
ColLists == {c \in SeqsUpTo(ColNames, MaxCols) : Len(c) >= 1 /\ c[1] = "a"}

\* what the engine answers to a query: the column names and the rows
Results ==
    UNION {[cols : {c},
            data : {d \in SeqsUpTo(SeqsOfLen(CellValues, Len(c)), MaxRows) :
                       Len(d) * Len(c) <= MaxCells}] : c \in ColLists}

\* ------------------------------------------------- the database handles
\* the sql.DB of every source; the sources own them
Handles == {srcs[n].db : n \in DOMAIN srcs}
OpenDb == [open |-> TRUE, conf |-> "initial"]

\* ------------------------------------------- inputs of the other methods
\* the verified authorization services Authorized is asked about
VerifiedSets == {<<>>, <<"auth">>}

\* the raw inputs ParseParams is given: the empty one and a complete one
RawInputs ==
    {AsMap(in) : in \in {x \in Inputs :
                            \/ Len(x) = 0
                            \/ /\ Len(x) = Len(ParamOrder)
                               /\ \A k \in DOMAIN x : x[k].value \in {"x"} \cup TplValues}}

\* ------------------------------------------------------------ sql.Rows
\* state: "nil" before QueryContext, then "open", then "closed";
\* pos: the rows Next has delivered; exhausted: Next has returned false;
\* lasterr: what rows.Err() reports;
\* closeErr: a Close reported an error; closeCalls, lateOps: the Close calls
\* and the operations after the first Close; late: the names of those
\* operations; cancelled: the cursor has seen the context cancelled
NilRows == [state |-> "nil", cols |-> <<>>, data |-> <<>>, pos |-> 0,
            exhausted |-> FALSE, lasterr |-> FALSE, closeErr |-> FALSE,
                  closeCalls |-> 0, lateOps |-> 0, late |-> {}, cancelled |-> FALSE]

OpenRows(res) == [state |-> "open", cols |-> res.cols, data |-> res.data, pos |-> 0,
                  exhausted |-> FALSE, lasterr |-> FALSE, closeErr |-> FALSE,
                  closeCalls |-> 0, lateOps |-> 0, late |-> {}, cancelled |-> FALSE]

\* one more operation on the cursor; it counts as late when the cursor has
\* been closed before
Touch(r) == [r EXCEPT !.lateOps = IF r.state = "closed" THEN @ + 1 ELSE @]

\* operation op on the cursor
Late(r, op) == [Touch(r) EXCEPT !.late = IF r.state = "closed" THEN @ \cup {op} ELSE @]

\* the errors rows.Close() can report: any on the open cursor, none on a
\* closed one (Close is idempotent)
CloseErrs(r) == IF r.state = "open" THEN BOOLEAN ELSE {FALSE}

\* rows.Close() reporting error e
RowsClose(r, e) ==
    [Late(r, "Close") EXCEPT !.state = "closed", !.closeCalls = @ + 1, !.closeErr = @ \/ e]

\* ----------------------------------------------------------------- state
VARIABLES
    config,        \* the Config being initialized
    tool,          \* the Tool Initialize returned, NilTool before and on failure
    initErr,       \* the error Initialize returned; "-" before Initialize
    dataset,       \* the engine's answer to each query it has been asked
    pc,            \* pc[i]: where invocation i is in Invoke
    params,        \* params[i]: the ParamValues argument
    newStatement,  \* newStatement[i]
    sliceParams,   \* sliceParams[i]
    rows,          \* rows[i]: the cursor
    cols,          \* cols[i]
    values,        \* values[i]: the scan buffer
    result,        \* result[i]: the accumulator
    submitted,     \* submitted[i]: the queries invocation i sent to t.Db
    ret,           \* ret[i]: what Invoke returned
    db,            \* db[h]: the state of database handle h
    lastCall,      \* the call of Manifest, McpManifest, Authorized or ParseParams
                   \* the host has made last, and what it returned
    prev           \* the input and the result of the successful invocation
                   \* the host has taken last

shared == <<config, tool, initErr, db>>
host == <<lastCall, prev>>
locals == <<pc, params, newStatement, sliceParams, rows, cols, values, result, submitted, ret>>
vars == <<config, tool, initErr, dataset, pc, params, newStatement, sliceParams, rows, cols,
          values, result, submitted, ret, db, lastCall, prev>>

NoRet == [result |-> NilAny, err |-> "-"]
NoCall == [op |-> "-", out |-> "-"]
NoPrev == [in |-> <<>>, result |-> NilAny, set |-> FALSE]

Init ==
    /\ config \in Configs
    /\ tool = NilTool
    /\ initErr = "-"
    /\ dataset = EmptyMap
    /\ pc = [i \in Inv |-> "idle"]
    /\ params = [i \in Inv |-> <<>>]
    /\ newStatement = [i \in Inv |-> <<>>]
    /\ sliceParams = [i \in Inv |-> <<>>]
    /\ rows = [i \in Inv |-> NilRows]
    /\ cols = [i \in Inv |-> <<>>]
    /\ values = [i \in Inv |-> <<>>]
    /\ result = [i \in Inv |-> NilSlice]
    /\ submitted = [i \in Inv |-> <<>>]
    /\ ret = [i \in Inv |-> NoRet]
    /\ db = [h \in Handles |-> OpenDb]
    /\ lastCall = NoCall
    /\ prev = NoPrev

\* ------------------------------------------------------ Config.Initialize
\* BuildTool taking the manifests from the standard parameters alone
BuildToolStdOnly(c, s) ==
    LET pp == ProcessParameters(<<>>, c.Parameters)
        mcpManifest == [Name |-> c.Name, Description |-> c.Description,
                        InputSchema |-> pp.paramMcpManifest]
    IN [Name |-> c.Name,
        Kind |-> kind,
        Parameters |-> c.Parameters,
        TemplateParameters |-> c.TemplateParameters,
        AllParams |-> pp.allParameters,
        Statement |-> c.Statement,
        AuthRequired |-> c.AuthRequired,
        Db |-> s.db,
        manifest |-> [Description |-> c.Description,
                      Parameters |-> pp.paramManifest,
                      AuthRequired |-> c.AuthRequired],
        mcpManifest |-> mcpManifest]

\* lines 77-97: the tool built from configuration c and source s
BuildTool(c, s) ==
    LET pp == ProcessParameters(c.TemplateParameters, c.Parameters)
        mcpManifest == [Name |-> c.Name, Description |-> c.Description,
                        InputSchema |-> pp.paramMcpManifest]
    IN [Name |-> c.Name,
        Kind |-> kind,
        Parameters |-> c.Parameters,
        TemplateParameters |-> c.TemplateParameters,
        AllParams |-> pp.allParameters,
        Statement |-> c.Statement,
        AuthRequired |-> c.AuthRequired,
        Db |-> s.db,
        manifest |-> [Description |-> c.Description,
                      Parameters |-> pp.paramManifest,
                      AuthRequired |-> c.AuthRequired],
        mcpManifest |-> mcpManifest]

\* InitializeResult checking the capability before the existence
InitializeResultCapabilityFirst(c) ==
    LET found == Lookup(srcs, c.Source)
    IN IF ~compatibleSource(found.rawS)
       THEN [tool |-> NilTool, err |-> ErrInvalidSource]
       ELSE IF ~found.ok
       THEN [tool |-> NilTool, err |-> ErrNoSource]
       ELSE [tool |-> BuildTool(c, found.rawS), err |-> NoErr]

\* what Initialize returns for configuration c: the tool and the error
InitializeResult(c) ==
    LET found == Lookup(srcs, c.Source)
    IN IF ~found.ok
       THEN [tool |-> NilTool, err |-> ErrNoSource]
       ELSE IF ~compatibleSource(found.rawS)
       THEN [tool |-> NilTool, err |-> ErrInvalidSource]
       ELSE [tool |-> BuildTool(c, found.rawS), err |-> NoErr]

Initialize ==
    /\ initErr = "-"
    /\ tool' = InitializeResult(config).tool
    /\ initErr' = InitializeResult(config).err
    /\ UNCHANGED <<config, dataset, db>>
    /\ UNCHANGED locals
    /\ UNCHANGED host

\* ------------------------------------------------------------ Tool.Invoke
\* Return without the deferred rows.Close()
ReturnNoDefer(i, res, err, r) ==
    /\ ret' = [ret EXCEPT ![i] = [result |-> res, err |-> err]]
    /\ rows' = [rows EXCEPT ![i] = r]
    /\ pc' = [pc EXCEPT ![i] = "done"]

\* a return statement of Invoke: the deferred rows.Close() runs when the
\* return comes after line 146
Return(i, res, err, r) ==
    /\ ret' = [ret EXCEPT ![i] = [result |-> res, err |-> err]]
    /\ \E e \in CloseErrs(r) :
          rows' = [rows EXCEPT ![i] = IF r.state = "nil" THEN r ELSE RowsClose(r, e)]
    /\ pc' = [pc EXCEPT ![i] = "done"]

\* lines 169-180: the map of one scanned row
RECURSIVE RowMapLoop(_, _, _, _)
RowMapLoop(rowMap, cs, vals, k) ==
    IF k > Len(cs) THEN rowMap
    ELSE LET val == vals[k]
             col == cs[k]
         IN RowMapLoop(IF val = Nil THEN MapSet(rowMap, col, Nil) ELSE MapSet(rowMap, col, val),
                       cs, vals, k + 1)

\* RowMap keeping, for a column name that comes twice, the first column's
\* value
RowMapFirstWins(cs, vals) ==
    RowMapLoop(EmptyMap, [k \in DOMAIN cs |-> cs[Len(cs) + 1 - k]],
               [k \in DOMAIN vals |-> vals[Len(vals) + 1 - k]], 1)

RowMap(cs, vals) == RowMapLoop(EmptyMap, cs, vals, 1)

\* under Spec the invocations of the tool run one after the other; they
\* take the first slot
Sequential(i) == i = 1 /\ \A j \in Inv : pc[j] = "idle"

\* ExtractParams extracting the standard parameters before it resolves the
\* template
ExtractParamsStdFirst(t, in) ==
    LET paramsMap == AsMap(in)
        tpl == ResolveTemplateParams(t.TemplateParameters, t.Statement, paramsMap)
        std == GetParams(t.Parameters, paramsMap)
    IN IF ~std.ok
       THEN [err |-> ErrStandard, newStatement |-> <<>>, sliceParams |-> <<>>]
       ELSE IF ~tpl.ok
       THEN [err |-> ErrTemplate, newStatement |-> <<>>, sliceParams |-> <<>>]
       ELSE [err |-> NoErr, newStatement |-> tpl.stmt, sliceParams |-> AsSlice(std.values)]

\* lines 129-140: template resolution, then parameter extraction; err is
\* the error Invoke returns there, NoErr when it goes on to the query
ExtractParams(t, in) ==
    LET paramsMap == AsMap(in)
        tpl == ResolveTemplateParams(t.TemplateParameters, t.Statement, paramsMap)
        std == GetParams(t.Parameters, paramsMap)
    IN IF ~tpl.ok
       THEN [err |-> ErrTemplate, newStatement |-> <<>>, sliceParams |-> <<>>]
       ELSE IF ~std.ok
       THEN [err |-> ErrStandard, newStatement |-> tpl.stmt, sliceParams |-> <<>>]
       ELSE [err |-> NoErr, newStatement |-> tpl.stmt, sliceParams |-> AsSlice(std.values)]

\* Invoke on a pointer receiver, keeping the resolved statement in the tool
InvokeKeepsStatement(i, in) ==
    /\ initErr = NoErr
    /\ pc[i] = "idle"
    /\ lastCall.op = "-"
    /\ params' = [params EXCEPT ![i] = in]
    /\ LET x == ExtractParams(tool, in)
       IN /\ newStatement' = [newStatement EXCEPT ![i] = x.newStatement]
          /\ sliceParams' = [sliceParams EXCEPT ![i] = x.sliceParams]
          /\ IF x.err # NoErr
             THEN /\ Return(i, NilAny, x.err, rows[i])
                  /\ UNCHANGED tool
             ELSE /\ pc' = [pc EXCEPT ![i] = "query"]
                  /\ tool' = [tool EXCEPT !.Statement =
                                 [k \in DOMAIN x.newStatement |-> Lit(x.newStatement[k])]]
                  /\ UNCHANGED <<rows, ret>>
    /\ UNCHANGED <<cols, values, result, submitted, dataset>>
    /\ UNCHANGED <<config, initErr, db>>
    /\ UNCHANGED host

\* lines 128-140: the call, up to its first two return statements
Invoke(i, in) ==
    /\ initErr = NoErr
    /\ pc[i] = "idle"
    /\ lastCall.op = "-"
    /\ params' = [params EXCEPT ![i] = in]
    /\ LET x == ExtractParams(tool, in)
       IN /\ newStatement' = [newStatement EXCEPT ![i] = x.newStatement]
          /\ sliceParams' = [sliceParams EXCEPT ![i] = x.sliceParams]
          /\ IF x.err # NoErr
             THEN Return(i, NilAny, x.err, rows[i])
             ELSE /\ pc' = [pc EXCEPT ![i] = "query"]
                  /\ UNCHANGED <<rows, ret>>
    /\ UNCHANGED <<cols, values, result, submitted, dataset>>
    /\ UNCHANGED shared
    /\ UNCHANGED host

\* an invocation that starts when no other is running
InvokeInTurn(i, in) == Sequential(i) /\ Invoke(i, in)

\* the engine's possible answers to a query: what it answered before, or
\* any result for a query it sees for the first time
Answers(key) ==
    IF key \in DOMAIN dataset THEN {dataset[key]}
    ELSE IF DOMAIN dataset = {} THEN Results
    ELSE {}

\* QueryOk submitting the statement of the configuration, with its
\* template markers, in place of the resolved one
QueryOkRawStatement(i) ==
    /\ pc[i] = "query"
    /\ db[tool.Db].open
    /\ LET key == <<[k \in DOMAIN tool.Statement |-> tool.Statement[k].text], sliceParams[i]>>
       IN /\ submitted' = [submitted EXCEPT ![i] = Append(@, key)]
          /\ \E res \in Answers(key) :
                /\ dataset' = MapSet(dataset, key, res)
                /\ rows' = [rows EXCEPT ![i] = OpenRows(res)]
    /\ pc' = [pc EXCEPT ![i] = "columns"]
    /\ UNCHANGED <<params, newStatement, sliceParams, cols, values, result, ret>>
    /\ UNCHANGED shared
    /\ UNCHANGED host

\* line 142, err == nil: t.Db.QueryContext returns a cursor
QueryOk(i) ==
    /\ pc[i] = "query"
    /\ db[tool.Db].open
    /\ LET key == <<newStatement[i], sliceParams[i]>>
       IN /\ submitted' = [submitted EXCEPT ![i] = Append(@, key)]
          /\ \E res \in Answers(key) :
                /\ dataset' = MapSet(dataset, key, res)
                /\ rows' = [rows EXCEPT ![i] = OpenRows(res)]
    /\ pc' = [pc EXCEPT ![i] = "columns"]
    /\ UNCHANGED <<params, newStatement, sliceParams, cols, values, result, ret>>
    /\ UNCHANGED shared
    /\ UNCHANGED host

\* QueryFail sending the failed query a second time before it gives up
QueryFailRetry(i) ==
    /\ pc[i] = "query"
    /\ submitted' = [submitted EXCEPT ![i] = Append(@, <<newStatement[i], sliceParams[i]>>)]
    /\ IF Len(submitted[i]) = 0
       THEN /\ pc' = [pc EXCEPT ![i] = "query"]
            /\ UNCHANGED <<rows, ret>>
       ELSE Return(i, NilAny, ErrExecute, rows[i])
    /\ UNCHANGED <<params, newStatement, sliceParams, cols, values, result, dataset>>
    /\ UNCHANGED shared
    /\ UNCHANGED host

\* lines 142-145, err != nil: the query fails
QueryFail(i) ==
    /\ pc[i] = "query"
    /\ submitted' = [submitted EXCEPT ![i] = Append(@, <<newStatement[i], sliceParams[i]>>)]
    /\ Return(i, NilAny, ErrExecute, rows[i])
    /\ UNCHANGED <<params, newStatement, sliceParams, cols, values, result, dataset>>
    /\ UNCHANGED shared
    /\ UNCHANGED host

\* ColumnsOk with the accumulator kept between the invocations: it starts
\* from the result of the invocation before
ColumnsOkKeepsResult(i) ==
    /\ pc[i] = "columns"
    /\ rows' = [rows EXCEPT ![i] = Late(@, "Columns")]
    /\ cols' = [cols EXCEPT ![i] = rows[i].cols]
    /\ values' = [values EXCEPT ![i] = [k \in 1..Len(rows[i].cols) |-> Nil]]
    /\ result' = [result EXCEPT ![i] = IF prev.set THEN prev.result ELSE NilSlice]
    /\ pc' = [pc EXCEPT ![i] = "next"]
    /\ UNCHANGED <<params, newStatement, sliceParams, submitted, ret, dataset>>
    /\ UNCHANGED shared
    /\ UNCHANGED host

\* lines 149, 154-161: rows.Columns() succeeds, the scan buffer is made
ColumnsOk(i) ==
    /\ pc[i] = "columns"
    /\ rows' = [rows EXCEPT ![i] = Late(@, "Columns")]
    /\ cols' = [cols EXCEPT ![i] = rows[i].cols]
    /\ values' = [values EXCEPT ![i] = [k \in 1..Len(rows[i].cols) |-> Nil]]
    /\ result' = [result EXCEPT ![i] = NilSlice]
    /\ pc' = [pc EXCEPT ![i] = "next"]
    /\ UNCHANGED <<params, newStatement, sliceParams, submitted, ret, dataset>>
    /\ UNCHANGED shared
    /\ UNCHANGED host

\* lines 149-152: rows.Columns() fails
ColumnsFail(i) ==
    /\ pc[i] = "columns"
    /\ Return(i, NilAny, ErrColumns, Late(rows[i], "Columns"))
    /\ UNCHANGED <<params, newStatement, sliceParams, cols, values, result, submitted, dataset>>
    /\ UNCHANGED shared
    /\ UNCHANGED host

\* NextRow with the cursor kept in a place all invocations share: the call
\* moves every open cursor to its next row
NextRowSharedCursor(i) ==
    /\ pc[i] = "next"
    /\ rows[i].pos < Len(rows[i].data)
    /\ rows' = [j \in Inv |->
                  IF rows[j].state = "open" /\ rows[j].pos < Len(rows[j].data)
                  THEN [Late(rows[j], "Next") EXCEPT !.pos = @ + 1]
                  ELSE rows[j]]
    /\ pc' = [pc EXCEPT ![i] = "scan"]
    /\ UNCHANGED <<params, newStatement, sliceParams, cols, values, result, submitted, ret, dataset>>
    /\ UNCHANGED shared
    /\ UNCHANGED host

\* line 163, rows.Next() is true: the cursor moves to its next row
NextRow(i) ==
    /\ pc[i] = "next"
    /\ rows[i].pos < Len(rows[i].data)
    /\ rows' = [rows EXCEPT ![i] = [Late(@, "Next") EXCEPT !.pos = @ + 1]]
    /\ pc' = [pc EXCEPT ![i] = "scan"]
    /\ UNCHANGED <<params, newStatement, sliceParams, cols, values, result, submitted, ret, dataset>>
    /\ UNCHANGED shared
    /\ UNCHANGED host

\* line 163, rows.Next() is false after the last row
NextEnd(i) ==
    /\ pc[i] = "next"
    /\ rows[i].pos = Len(rows[i].data)
    /\ rows' = [rows EXCEPT ![i] = [Late(@, "Next") EXCEPT !.exhausted = TRUE]]
    /\ pc' = [pc EXCEPT ![i] = "close"]
    /\ UNCHANGED <<params, newStatement, sliceParams, cols, values, result, submitted, ret, dataset>>
    /\ UNCHANGED shared
    /\ UNCHANGED host

\* line 163, rows.Next() is false because fetching failed: the cursor keeps
\* the error for rows.Err()
NextFail(i) ==
    /\ pc[i] = "next"
    /\ rows' = [rows EXCEPT ![i] = [Late(@, "Next") EXCEPT !.exhausted = TRUE, !.lasterr = TRUE]]
    /\ pc' = [pc EXCEPT ![i] = "close"]
    /\ UNCHANGED <<params, newStatement, sliceParams, cols, values, result, submitted, ret, dataset>>
    /\ UNCHANGED shared
    /\ UNCHANGED host

\* ScanOk with the row's map made once, before the loop: every element of
\* the result is that one map, which the scan of each row overwrites
ScanOkSharedMap(i) ==
    /\ pc[i] = "scan"
    /\ LET scanned == rows[i].data[rows[i].pos]
       IN /\ values' = [values EXCEPT ![i] = scanned]
          /\ result' = [result EXCEPT ![i] =
                           [kind |-> "slice",
                            items |-> [k \in 1..(Len(@.items) + 1) |->
                                          RowMap(cols[i], scanned)]]]
    /\ rows' = [rows EXCEPT ![i] = Late(@, "Scan")]
    /\ pc' = [pc EXCEPT ![i] = "next"]
    /\ UNCHANGED <<params, newStatement, sliceParams, cols, submitted, ret, dataset>>
    /\ UNCHANGED shared
    /\ UNCHANGED host

\* line 163, rows.Next() is false because the context of the invocation was
\* cancelled: rows.Err() will report the cancellation
NextCancelled(i) ==
    /\ pc[i] = "next"
    /\ rows' = [rows EXCEPT ![i] = [Late(@, "Next") EXCEPT !.exhausted = TRUE, !.lasterr = TRUE,
                                                         !.cancelled = TRUE]]
    /\ pc' = [pc EXCEPT ![i] = "close"]
    /\ UNCHANGED <<params, newStatement, sliceParams, cols, values, result, submitted, ret, dataset>>
    /\ UNCHANGED shared
    /\ UNCHANGED host

\* lines 165-181: rows.Scan fills the buffer, the row's map is appended
ScanOk(i) ==
    /\ pc[i] = "scan"
    /\ LET scanned == rows[i].data[rows[i].pos]
       IN /\ values' = [values EXCEPT ![i] = scanned]
          /\ result' = [result EXCEPT ![i] = GoAppend(@, RowMap(cols[i], scanned))]
    /\ rows' = [rows EXCEPT ![i] = Late(@, "Scan")]
    /\ pc' = [pc EXCEPT ![i] = "next"]
    /\ UNCHANGED <<params, newStatement, sliceParams, cols, submitted, ret, dataset>>
    /\ UNCHANGED shared
    /\ UNCHANGED host

\* ScanFail returning the records accumulated so far with the error
ScanFailPartial(i) ==
    /\ pc[i] = "scan"
    /\ Return(i, result[i], ErrScan, Late(rows[i], "Scan"))
    /\ UNCHANGED <<params, newStatement, sliceParams, cols, values, result, submitted, dataset>>
    /\ UNCHANGED shared
    /\ UNCHANGED host

\* lines 165-167: rows.Scan fails
ScanFail(i) ==
    /\ pc[i] = "scan"
    /\ Return(i, NilAny, ErrScan, Late(rows[i], "Scan"))
    /\ UNCHANGED <<params, newStatement, sliceParams, cols, values, result, submitted, dataset>>
    /\ UNCHANGED shared
    /\ UNCHANGED host

\* CloseOk inside the loop: after the close Invoke asks the cursor for its
\* next row
CloseOkThenNext(i) ==
    /\ pc[i] = "close"
    /\ rows[i].state = "open"
    /\ rows' = [rows EXCEPT ![i] = RowsClose(@, FALSE)]
    /\ pc' = [pc EXCEPT ![i] = "next"]
    /\ UNCHANGED <<params, newStatement, sliceParams, cols, values, result, submitted, ret, dataset>>
    /\ UNCHANGED shared
    /\ UNCHANGED host

\* line 184, err == nil: rows.Close() succeeds
CloseOk(i) ==
    /\ pc[i] = "close"
    /\ rows[i].state = "open"
    /\ rows' = [rows EXCEPT ![i] = RowsClose(@, FALSE)]
    /\ pc' = [pc EXCEPT ![i] = "err"]
    /\ UNCHANGED <<params, newStatement, sliceParams, cols, values, result, submitted, ret, dataset>>
    /\ UNCHANGED shared
    /\ UNCHANGED host

\* CloseFail closing the database handle as well when the cursor's close
\* fails
CloseFailClosesDb(i) ==
    /\ pc[i] = "close"
    /\ rows[i].state = "open"
    /\ Return(i, NilAny, ErrClose, RowsClose(rows[i], TRUE))
    /\ db' = [db EXCEPT ![tool.Db].open = FALSE]
    /\ UNCHANGED <<params, newStatement, sliceParams, cols, values, result, submitted, dataset>>
    /\ UNCHANGED <<config, tool, initErr>>
    /\ UNCHANGED host

\* lines 184-186: rows.Close() reports an error
CloseFail(i) ==
    /\ pc[i] = "close"
    /\ rows[i].state = "open"
    /\ Return(i, NilAny, ErrClose, RowsClose(rows[i], TRUE))
    /\ UNCHANGED <<params, newStatement, sliceParams, cols, values, result, submitted, dataset>>
    /\ UNCHANGED shared
    /\ UNCHANGED host

\* ErrAndReturn not consulting rows.Err()
ErrAndReturnUnchecked(i) ==
    /\ pc[i] = "err"
    /\ Return(i, result[i], NoErr, Late(rows[i], "Err"))
    /\ UNCHANGED <<params, newStatement, sliceParams, cols, values, result, submitted, dataset>>
    /\ UNCHANGED shared
    /\ UNCHANGED host

\* lines 188-192: rows.Err() and the final return
ErrAndReturn(i) ==
    /\ pc[i] = "err"
    /\ IF rows[i].lasterr
       THEN Return(i, NilAny, ErrIter, Late(rows[i], "Err"))
       ELSE Return(i, result[i], NoErr, Late(rows[i], "Err"))
    /\ UNCHANGED <<params, newStatement, sliceParams, cols, values, result, submitted, dataset>>
    /\ UNCHANGED shared
    /\ UNCHANGED host

\* the host takes the outcome; the invocation's frame is gone
Finish(i) ==
    /\ pc[i] = "done"
    /\ pc' = [pc EXCEPT ![i] = "idle"]
    /\ params' = [params EXCEPT ![i] = <<>>]
    /\ newStatement' = [newStatement EXCEPT ![i] = <<>>]
    /\ sliceParams' = [sliceParams EXCEPT ![i] = <<>>]
    /\ rows' = [rows EXCEPT ![i] = NilRows]
    /\ cols' = [cols EXCEPT ![i] = <<>>]
    /\ values' = [values EXCEPT ![i] = <<>>]
    /\ result' = [result EXCEPT ![i] = NilSlice]
    /\ submitted' = [submitted EXCEPT ![i] = <<>>]
    /\ ret' = [ret EXCEPT ![i] = NoRet]
    /\ UNCHANGED dataset
    /\ UNCHANGED shared
    /\ UNCHANGED host

\* Finish with the host keeping the input and the result of a successful
\* invocation, to compare a later one with
FinishRecord(i) ==
    /\ pc[i] = "done"
    /\ pc' = [pc EXCEPT ![i] = "idle"]
    /\ params' = [params EXCEPT ![i] = <<>>]
    /\ newStatement' = [newStatement EXCEPT ![i] = <<>>]
    /\ sliceParams' = [sliceParams EXCEPT ![i] = <<>>]
    /\ rows' = [rows EXCEPT ![i] = NilRows]
    /\ cols' = [cols EXCEPT ![i] = <<>>]
    /\ values' = [values EXCEPT ![i] = <<>>]
    /\ result' = [result EXCEPT ![i] = NilSlice]
    /\ submitted' = [submitted EXCEPT ![i] = <<>>]
    /\ ret' = [ret EXCEPT ![i] = NoRet]
    /\ prev' = IF ret[i].err = NoErr
               THEN [in |-> params[i], result |-> ret[i].result, set |-> TRUE]
               ELSE prev
    /\ UNCHANGED <<dataset, lastCall>>
    /\ UNCHANGED shared

\* the backing data changes: the engine's earlier answers no longer bind it
DataChange ==
    /\ \A j \in Inv : pc[j] = "idle"
    /\ lastCall.op = "-"
    /\ dataset # EmptyMap
    /\ dataset' = EmptyMap
    /\ prev' = NoPrev
    /\ UNCHANGED lastCall
    /\ UNCHANGED locals
    /\ UNCHANGED shared

\* ------------------------------------------- the other methods of Tool
\* the host calls them between the invocations, one call at a time
Callable == initErr = NoErr /\ lastCall.op = "-" /\ \A j \in Inv : pc[j] = "idle"

\* lines 196-198: return t.manifest
Manifest ==
    /\ Callable
    /\ lastCall' = [op |-> "Manifest", out |-> tool.manifest]
    /\ UNCHANGED <<dataset, prev>>
    /\ UNCHANGED locals
    /\ UNCHANGED shared

\* lines 201-203: return t.mcpManifest
McpManifest ==
    /\ Callable
    /\ lastCall' = [op |-> "McpManifest", out |-> tool.mcpManifest]
    /\ UNCHANGED <<dataset, prev>>
    /\ UNCHANGED locals
    /\ UNCHANGED shared

\* lines 123-125: return tools.IsAuthorized(t.AuthRequired, verifiedAuthSources)
Authorized(verifiedAuthSources) ==
    /\ Callable
    /\ lastCall' = [op |-> "Authorized",
                    out |-> IsAuthorized(tool.AuthRequired, verifiedAuthSources)]
    /\ UNCHANGED <<dataset, prev>>
    /\ UNCHANGED locals
    /\ UNCHANGED shared

\* lines 206-208: return tools.ParseParams(t.AllParams, data, claimsMap)
ParseParams(data) ==
    /\ Callable
    /\ lastCall' = [op |-> "ParseParams", out |-> GetParams(tool.AllParams, data)]
    /\ UNCHANGED <<dataset, prev>>
    /\ UNCHANGED locals
    /\ UNCHANGED shared

\* the host has taken what the call returned
Answered ==
    /\ lastCall.op # "-"
    /\ lastCall' = NoCall
    /\ UNCHANGED <<dataset, prev>>
    /\ UNCHANGED locals
    /\ UNCHANGED shared

Next ==
    \/ Initialize
    \/ \E i \in Inv, in \in Inputs : InvokeInTurn(i, in)
    \/ \E i \in Inv : QueryOk(i)
    \/ \E i \in Inv : QueryFail(i)
    \/ \E i \in Inv : ColumnsOk(i)
    \/ \E i \in Inv : ColumnsFail(i)
    \/ \E i \in Inv : NextRow(i)
    \/ \E i \in Inv : NextEnd(i)
    \/ \E i \in Inv : NextFail(i)
    \/ \E i \in Inv : NextCancelled(i)
    \/ \E i \in Inv : ScanOk(i)
    \/ \E i \in Inv : ScanFail(i)
    \/ \E i \in Inv : CloseOk(i)
    \/ \E i \in Inv : CloseFail(i)
    \/ \E i \in Inv : ErrAndReturn(i)
    \/ \E i \in Inv : Finish(i)
    \/ DataChange
    \/ Manifest
    \/ McpManifest
    \/ \E verifiedAuthSources \in VerifiedSets : Authorized(verifiedAuthSources)
    \/ \E data \in RawInputs : ParseParams(data)
    \/ Answered

Spec == Init /\ [][Next]_vars

\* ------------------------------------------------- repeated invocations
\* one tool with a template parameter and two standard parameters, invoked
\* again and again; the host keeps what the last successful invocation
\* returned
IdemConfigs ==
    {c \in Configs : /\ c.Source = "duck"
                     /\ Len(c.TemplateParameters) = 1
                     /\ Len(c.Parameters) = Cardinality(StdDefs)
                     /\ c.Parameters[1].required
                     /\ \E k \in DOMAIN c.Statement : c.Statement[k].tok = "marker"}

InitIdem == Init /\ config \in IdemConfigs

NextIdem ==
    \/ Initialize
    \/ \E i \in Inv, in \in Inputs : InvokeInTurn(i, in)
    \/ \E i \in Inv : QueryOk(i)
    \/ \E i \in Inv : QueryFail(i)
    \/ \E i \in Inv : ColumnsOk(i)
    \/ \E i \in Inv : ColumnsFail(i)
    \/ \E i \in Inv : NextRow(i)
    \/ \E i \in Inv : NextEnd(i)
    \/ \E i \in Inv : NextFail(i)
    \/ \E i \in Inv : NextCancelled(i)
    \/ \E i \in Inv : ScanOk(i)
    \/ \E i \in Inv : ScanFail(i)
    \/ \E i \in Inv : CloseOk(i)
    \/ \E i \in Inv : CloseFail(i)
    \/ \E i \in Inv : ErrAndReturn(i)
    \/ \E i \in Inv : FinishRecord(i)
    \/ DataChange

SpecIdem == InitIdem /\ [][NextIdem]_vars

\* ------------------------------------------------ concurrent invocations
\* invocations of one tool that overlap.  The inputs: two complete ones
\* with different bind values, and one that lacks the required parameter
ConcInputs ==
    {in \in Inputs :
        \/ AsMap(in) = [p |-> "x", q |-> "y", t |-> "t1"]
        \/ AsMap(in) = [p |-> "y", t |-> "t1"]
        \/ AsMap(in) = [q |-> "y", t |-> "t1"]}

\* the dataset: what the engine answers to the two queries
ConcData ==
    MapSet(MapSet(EmptyMap,
                  <<(<<"select", "t1">>), <<"x", "y">>>>,
                  [cols |-> <<"a", "b">>, data |-> <<(<<"v", Nil>>), <<Nil, "v">>>>]),
           <<(<<"select", "t1">>), <<"y", Nil>>>>,
           [cols |-> <<"a">>, data |-> <<(<<"v">>)>>])

InitConc ==
    /\ config \in {c \in IdemConfigs : Names(c.Parameters) = <<"p", "q">>}
    /\ tool = NilTool
    /\ initErr = "-"
    /\ dataset = ConcData
    /\ pc = [i \in Inv |-> "idle"]
    /\ params = [i \in Inv |-> <<>>]
    /\ newStatement = [i \in Inv |-> <<>>]
    /\ sliceParams = [i \in Inv |-> <<>>]
    /\ rows = [i \in Inv |-> NilRows]
    /\ cols = [i \in Inv |-> <<>>]
    /\ values = [i \in Inv |-> <<>>]
    /\ result = [i \in Inv |-> NilSlice]
    /\ submitted = [i \in Inv |-> <<>>]
    /\ ret = [i \in Inv |-> NoRet]
    /\ db = [h \in Handles |-> OpenDb]
    /\ lastCall = NoCall
    /\ prev = NoPrev

NextConc ==
    \/ Initialize
    \/ \E i \in Inv, in \in ConcInputs : Invoke(i, in)
    \/ \E i \in Inv : QueryOk(i)
    \/ \E i \in Inv : QueryFail(i)
    \/ \E i \in Inv : ColumnsOk(i)
    \/ \E i \in Inv : ColumnsFail(i)
    \/ \E i \in Inv : NextRow(i)
    \/ \E i \in Inv : NextEnd(i)
    \/ \E i \in Inv : NextFail(i)
    \/ \E i \in Inv : NextCancelled(i)
    \/ \E i \in Inv : ScanOk(i)
    \/ \E i \in Inv : ScanFail(i)
    \/ \E i \in Inv : CloseOk(i)
    \/ \E i \in Inv : CloseFail(i)
    \/ \E i \in Inv : ErrAndReturn(i)
    \/ \E i \in Inv : Finish(i)

SpecConc == InitConc /\ [][NextConc]_vars

\* ================================================================ claims
Done(i) == pc[i] = "done"
Failed(i) == Done(i) /\ ret[i].err # NoErr
Succeeded(i) == Done(i) /\ ret[i].err = NoErr

\* C1: whenever Invoke returns a non-nil error its first result is the
\* untyped nil: no stage that fails after some rows were materialized hands
\* back the records accumulated so far.
C1_NoPartialResult ==
    \A i \in Inv : Failed(i) => ret[i].result = NilAny

\* C1 witness: the scan of a row failed after an earlier row had been
\* appended, and Invoke has returned.
C1_Witness ==
    \E i \in Inv : /\ Done(i)
                   /\ ret[i].err = ErrScan
                   /\ Len(result[i].items) >= 1
                   /\ ret[i].result = NilAny

\* the names the input of invocation i gives a value for
Given(i) == {params[i][k].name : k \in DOMAIN params[i]}

\* the input of invocation i lacks a required parameter of defs
LacksRequired(i, defs) ==
    \E k \in DOMAIN defs : defs[k].required /\ defs[k].name \notin Given(i)

\* C2 as stated: an input lacking a required template parameter gives the
\* template error, an input lacking a required standard parameter gives the
\* standard-parameter error, and in both cases nothing is sent to the
\* database handle.
C2_Original ==
    \A i \in Inv : Done(i) =>
        /\ LacksRequired(i, tool.TemplateParameters)
               => ret[i].err = ErrTemplate /\ submitted[i] = <<>>
        /\ LacksRequired(i, tool.Parameters)
               => ret[i].err = ErrStandard /\ submitted[i] = <<>>

\* C2 amended: an input lacking a required template parameter gives the
\* template error; an input lacking a required standard parameter gives the
\* standard-parameter error when template resolution succeeds, and the
\* template error when it does not; in every such case nothing is sent to
\* the database handle.
C2_MissingParams ==
    \A i \in Inv : Done(i) =>
        LET tplOk == ResolveTemplateParams(tool.TemplateParameters, tool.Statement,
                                           AsMap(params[i])).ok
        IN /\ LacksRequired(i, tool.TemplateParameters)
                  => ret[i].err = ErrTemplate /\ submitted[i] = <<>>
           /\ LacksRequired(i, tool.Parameters)
                  => /\ ret[i].err = (IF tplOk THEN ErrStandard ELSE ErrTemplate)
                     /\ submitted[i] = <<>>

\* C2 witness: a required standard parameter is missing, the template
\* resolved, and Invoke returned the standard-parameter error without a query.
C2_Witness ==
    \E i \in Inv : /\ Done(i)
                   /\ LacksRequired(i, tool.Parameters)
                   /\ ~LacksRequired(i, tool.TemplateParameters)
                   /\ Len(tool.TemplateParameters) = 1
                   /\ ret[i].err = ErrStandard
                   /\ submitted[i] = <<>>

\* C3: when Invoke has returned and the query had produced a cursor, the
\* cursor is closed, whatever the return statement taken.
C3_CursorReleased ==
    \A i \in Inv : (Done(i) /\ rows[i].state # "nil") => rows[i].state = "closed"

\* C3 witness: Invoke returned early, on a failed scan, so that only the
\* deferred Close has run, and the cursor is closed.
C3_Witness ==
    \E i \in Inv : /\ Done(i)
                   /\ ret[i].err = ErrScan
                   /\ rows[i].closeCalls = 1
                   /\ rows[i].state = "closed"

\* record rec holds, under every column name, a value a column of that name
\* has in row
BuiltFrom(rec, cs, row) ==
    /\ DOMAIN rec = Range(cs)
    /\ \A n \in DOMAIN rec : \E j \in DOMAIN cs : cs[j] = n /\ rec[n] = row[j]

\* C4: a successful Invoke returns as many records as the query has rows,
\* and the k-th record is built from the k-th row.
C4_RowsInOrder ==
    \A i \in Inv : Succeeded(i) =>
        /\ Len(ret[i].result.items) = Len(rows[i].data)
        /\ \A k \in DOMAIN ret[i].result.items :
               BuiltFrom(ret[i].result.items[k], rows[i].cols, rows[i].data[k])

\* C4 witness: a successful Invoke over two rows that differ.
C4_Witness ==
    \E i \in Inv : /\ Succeeded(i)
                   /\ Len(rows[i].data) = 2
                   /\ rows[i].data[1] # rows[i].data[2]
                   /\ Len(ret[i].result.items) = 2

\* C5 as stated: a successful Invoke over a query without rows returns a
\* non-nil sequence of length 0.
C5_EmptyNotNull ==
    \A i \in Inv : (Succeeded(i) /\ Len(rows[i].data) = 0) =>
        ret[i].result.kind = "slice" /\ Len(ret[i].result.items) = 0

\* C6 as stated: in every returned record every column name is a key, and a
\* column that is NULL in the row has the nil entry under its name.
C6_NullHandling ==
    \A i \in Inv : Succeeded(i) =>
        \A k \in DOMAIN ret[i].result.items :
            \A j \in DOMAIN rows[i].cols :
                LET rec == ret[i].result.items[k]
                    col == rows[i].cols[j]
                IN /\ col \in DOMAIN rec
                   /\ rows[i].data[k][j] = Nil => rec[col] = Nil

\* C7 as stated: every returned record is an ordered mapping: its keys come
\* in the order of the result set's columns.
C7_ColumnOrder ==
    \A i \in Inv : Succeeded(i) =>
        \A k \in DOMAIN ret[i].result.items :
            \A o \in KeyOrders(ret[i].result.items[k]) : o = rows[i].cols

Initialized == initErr # "-"

\* C8: Initialize fails with the no-source error when the configured source
\* is not in the registry (whatever else holds), with the invalid-source
\* error when it is there without the DuckDb capability, and returns no tool
\* (so nothing is ever invoked) in both cases.
C8_SourceErrors ==
    Initialized =>
        /\ config.Source \notin DOMAIN srcs
               => /\ initErr = ErrNoSource
                  /\ tool = NilTool
                  /\ \A i \in Inv : pc[i] = "idle"
        /\ (config.Source \in DOMAIN srcs /\ srcs[config.Source].kind # "duckdb")
               => /\ initErr = ErrInvalidSource
                  /\ tool = NilTool
                  /\ \A i \in Inv : pc[i] = "idle"

\* C8 witness: Initialize has failed on a source that is not registered.
C8_Witness ==
    /\ config.Source \notin DOMAIN srcs
    /\ initErr = ErrNoSource
    /\ tool = NilTool

\* names lists the parameters of both declared lists, each once, those of
\* either list in their declaration order
EnumeratesDeclared(names, c) ==
    /\ Len(names) = Len(c.Parameters) + Len(c.TemplateParameters)
    /\ SelectSeq(names, LAMBDA n : n \in Range(Names(c.Parameters))) = Names(c.Parameters)
    /\ SelectSeq(names, LAMBDA n : n \in Range(Names(c.TemplateParameters)))
           = Names(c.TemplateParameters)

\* C9: for a configuration whose source has the DuckDb capability,
\* Initialize succeeds and both manifests list exactly the declared
\* parameters, each once, in declaration order.
C9_Manifests ==
    (Initialized /\ config.Source \in DOMAIN srcs /\ srcs[config.Source].kind = "duckdb") =>
        /\ initErr = NoErr
        /\ tool # NilTool
        /\ EnumeratesDeclared(Names(tool.manifest.Parameters), config)
        /\ EnumeratesDeclared(tool.mcpManifest.InputSchema.properties, config)

\* C9 witness: a tool was built from a configuration that declares two
\* standard parameters and a template parameter.
C9_Witness ==
    /\ initErr = NoErr
    /\ Len(config.Parameters) = 2
    /\ Len(config.TemplateParameters) = 1
    /\ Len(tool.manifest.Parameters) = 3

\* Next returned false and every row it delivered was scanned and appended
AllScanned(i) == rows[i].exhausted /\ Len(result[i].items) = rows[i].pos

\* C10 as stated: a close error after all rows were scanned gives the close
\* error and no result; an end-of-iteration error held by the cursor gives
\* the iteration error and no result.
C10_Original ==
    \A i \in Inv : Done(i) =>
        /\ (AllScanned(i) /\ rows[i].closeErr)
               => ret[i] = [result |-> NilAny, err |-> ErrClose]
        /\ rows[i].lasterr
               => ret[i] = [result |-> NilAny, err |-> ErrIter]

\* C10 amended: a close error after all rows were scanned gives the close
\* error and no result, also when the cursor holds an end-of-iteration
\* error; an end-of-iteration error gives the iteration error and no
\* result when the close reported no error.
C10_CloseAndIterationErrors ==
    \A i \in Inv : Done(i) =>
        /\ (AllScanned(i) /\ rows[i].closeErr)
               => ret[i] = [result |-> NilAny, err |-> ErrClose]
        /\ (rows[i].lasterr /\ ~rows[i].closeErr)
               => ret[i] = [result |-> NilAny, err |-> ErrIter]

\* C10 witness: iteration ended with an error after a row was scanned, the
\* close succeeded, and Invoke returned the iteration error.
C10_Witness ==
    \E i \in Inv : /\ Done(i)
                   /\ rows[i].lasterr
                   /\ ~rows[i].closeErr
                   /\ Len(result[i].items) >= 1
                   /\ ret[i] = [result |-> NilAny, err |-> ErrIter]

\* the last position of column name n in cs
LastIndex(cs, n) ==
    CHOOSE j \in DOMAIN cs : cs[j] = n /\ \A l \in DOMAIN cs : cs[l] = n => l <= j

\* C20: when a column name comes at two or more positions of the result
\* set, every returned record has one entry under that name, holding the
\* value of the last column of that name, and the record has as many
\* entries as the result set has distinct column names.
C20_DuplicateColumns ==
    \A i \in Inv : Succeeded(i) =>
        \A k \in DOMAIN ret[i].result.items :
            LET rec == ret[i].result.items[k]
                row == rows[i].data[k]
            IN /\ DOMAIN rec = Range(rows[i].cols)
               /\ Cardinality(DOMAIN rec) = Cardinality(Range(rows[i].cols))
               /\ \A n \in DOMAIN rec : rec[n] = row[LastIndex(rows[i].cols, n)]

\* C20 witness: a successful Invoke over two columns of one name whose
\* values differ in a row; the record has the second column's value.
C20_Witness ==
    \E i \in Inv : /\ Succeeded(i)
                   /\ rows[i].cols = <<"a", "a">>
                   /\ Len(rows[i].data) >= 1
                   /\ rows[i].data[1] = <<"v", Nil>>
                   /\ ret[i].result.items[1]["a"] = Nil
                   /\ Cardinality(DOMAIN ret[i].result.items[1]) = 1

\* the records invocation i has appended stay as they are while the
\* invocation goes on
RecordsKept(i) ==
    \A k \in DOMAIN result[i].items :
        pc'[i] # "idle" =>
            /\ k \in DOMAIN result'[i].items
            /\ result'[i].items[k] = result[i].items[k]

\* the one scan buffer has a cell for every column and holds the row
\* scanned last; the k-th appended record is built from the k-th row
BufferAndRecords(i) ==
    /\ pc[i] \in {"next", "scan", "close", "err"} => Len(values[i]) = Len(cols[i])
    /\ (pc[i] = "next" /\ rows[i].pos >= 1) => values[i] = rows[i].data[rows[i].pos]
    /\ \A k \in DOMAIN result[i].items :
           BuiltFrom(result[i].items[k], cols[i], rows[i].data[k])

\* C19: every row is copied out of the one reused scan buffer into a fresh
\* record: a record appended for a row is not changed by the scan or the
\* materialization of a later row, so that every record holds the values
\* its own row had when it was scanned, up to the return of Invoke.
C19_FreshRecords ==
    /\ [](\A i \in Inv : BufferAndRecords(i))
    /\ [][\A i \in Inv : RecordsKept(i)]_vars
    /\ [](\A i \in Inv : Succeeded(i) => ret[i].result.items = result[i].items)

\* C19 witness: the second of two rows that differ has been scanned into
\* the buffer, and the record of the first row still holds the first row.
C19_Witness ==
    \E i \in Inv : /\ Len(result[i].items) = 2
                   /\ rows[i].data[1] # rows[i].data[2]
                   /\ values[i] = rows[i].data[2]
                   /\ result[i].items[1] # result[i].items[2]
                   /\ BuiltFrom(result[i].items[1], cols[i], rows[i].data[1])

\* the value the input of invocation i gives for name n
InputValue(i, n) == (CHOOSE e \in Range(params[i]) : e.name = n).value

\* the values the input of invocation i gives for the template parameters
TemplateValues(i) ==
    {InputValue(i, d.name) : d \in {e \in Range(tool.TemplateParameters) : e.name \in Given(i)}}

\* C17: the statement sent to the database handle is the configured
\* statement with every template marker replaced by the input's value for
\* that template parameter; the bind arguments sent with it are the values
\* of the declared standard parameters, one for each, in declaration order
\* (nil for an optional one the input leaves out); no value of a template
\* parameter is among the bind arguments.
C17_TwoPhaseParameters ==
    \A i \in Inv : \A s \in DOMAIN submitted[i] :
        LET stmt == submitted[i][s][1]
            args == submitted[i][s][2]
        IN /\ Len(stmt) = Len(tool.Statement)
           /\ \A k \in DOMAIN stmt :
                  stmt[k] = IF tool.Statement[k].tok = "marker"
                            THEN InputValue(i, tool.Statement[k].text)
                            ELSE tool.Statement[k].text
           /\ Len(args) = Len(tool.Parameters)
           /\ \A k \in DOMAIN args :
                  args[k] = IF tool.Parameters[k].name \in Given(i)
                            THEN InputValue(i, tool.Parameters[k].name)
                            ELSE Nil
           /\ Range(args) \cap TemplateValues(i) = {}

\* C17 witness: a statement with a template marker and two standard
\* parameters has been sent, resolved, with the two bind arguments.
C17_Witness ==
    \E i \in Inv : /\ pc[i] = "columns"
                   /\ Len(submitted[i]) = 1
                   /\ \E k \in DOMAIN tool.Statement : tool.Statement[k].tok = "marker"
                   /\ submitted[i][1][1] = <<"select", "t1">>
                   /\ Len(tool.Parameters) = 2
                   /\ submitted[i][1][2] = <<"y", "x">>
                   /\ TemplateValues(i) = {"t1"}

\* the stages of Invoke in their order, as steps of pc: template resolution
\* and parameter extraction (from "idle"), execution ("query"), column
\* discovery ("columns"), row materialization ("next", "scan"),
\* finalization ("close", "err")
StageOrder ==
    {<<"idle", "query">>, <<"query", "columns">>, <<"columns", "next">>,
     <<"next", "scan">>, <<"scan", "next">>, <<"next", "close">>, <<"close", "err">>,
     <<"idle", "done">>, <<"query", "done">>, <<"columns", "done">>, <<"scan", "done">>,
     <<"close", "done">>, <<"err", "done">>, <<"done", "idle">>}

\* the outcomes a return from stage p can have
StageErrors(p) ==
    CASE p = "idle" -> {ErrTemplate, ErrStandard}
      [] p = "query" -> {ErrExecute}
      [] p = "columns" -> {ErrColumns}
      [] p = "scan" -> {ErrScan}
      [] p = "close" -> {ErrClose}
      [] p = "err" -> {ErrIter, NoErr}
      [] OTHER -> {}

\* a step of invocation i keeps the order of the stages, and a return names
\* the stage it comes from
StageStep(i) ==
    pc'[i] # pc[i] =>
        /\ <<pc[i], pc'[i]>> \in StageOrder
        /\ pc'[i] = "done" =>
              /\ ret'[i].err \in StageErrors(pc[i])
              /\ ret'[i].err = ErrTemplate =>
                    newStatement'[i] = <<>> /\ sliceParams'[i] = <<>>
              /\ ret'[i].err = ErrStandard => sliceParams'[i] = <<>>

\* what has run when Invoke has returned the error of a stage: nothing of a
\* later stage, but for the release of the cursor
NothingLater(i) ==
    /\ ret[i].err \in {ErrTemplate, ErrStandard} =>
          submitted[i] = <<>> /\ rows[i].state = "nil"
    /\ ret[i].err = ErrExecute =>
          rows[i].state = "nil" /\ cols[i] = <<>> /\ values[i] = <<>>
    /\ ret[i].err = ErrColumns =>
          /\ cols[i] = <<>> /\ values[i] = <<>> /\ rows[i].pos = 0
          /\ rows[i].closeCalls = 1 /\ rows[i].lateOps = 0
    /\ ret[i].err = ErrScan =>
          /\ ~rows[i].exhausted
          /\ Len(result[i].items) = rows[i].pos - 1
          /\ rows[i].closeCalls = 1 /\ rows[i].lateOps = 0
    /\ ret[i].err = ErrClose =>
          rows[i].closeCalls = 2 /\ rows[i].lateOps = 1

\* C16: a failure is terminal.  The stages run in the order template
\* resolution, standard parameter extraction, execution, column discovery,
\* row materialization, finalization; when a stage fails Invoke returns from
\* it, with the error of that stage, and nothing of a later stage has run
\* but the release of the cursor; the query is sent to the database handle
\* at most once.
C16_TerminalFailure ==
    /\ [][\A i \in Inv : StageStep(i)]_vars
    /\ [](\A i \in Inv : Failed(i) => NothingLater(i))
    /\ [](\A i \in Inv : Len(submitted[i]) <= 1)

\* C16 witness: column discovery failed after the query was sent once;
\* Invoke returned that error, having made no buffer and fetched no row.
C16_Witness ==
    \E i \in Inv : /\ Done(i)
                   /\ ret[i].err = ErrColumns
                   /\ Len(submitted[i]) = 1
                   /\ Len(rows[i].data) = 2
                   /\ rows[i].pos = 0
                   /\ rows[i].state = "closed"

\* C14 as stated: once the cursor has been closed, Invoke performs no
\* further operation on it: no Next, Scan, Columns, Err and no other Close.
C14_Original ==
    \A i \in Inv : rows[i].lateOps = 0

\* C14: once the cursor has been closed, Invoke performs no Next, Scan or
\* Columns on it; the operations it performs on the closed cursor are the
\* one rows.Err() that reads the end-of-iteration error and the deferred
\* second rows.Close(), which reports no error and leaves the cursor closed.
C14_AfterClose ==
    \A i \in Inv :
        /\ rows[i].late \subseteq {"Err", "Close"}
        /\ rows[i].lateOps <= 2
        /\ rows[i].closeCalls <= 2
        /\ rows[i].closeCalls >= 1 => rows[i].state = "closed"
        /\ (Done(i) /\ ret[i].err \notin {ErrClose, NoErr, ErrIter}) => rows[i].lateOps = 0

\* C14 witness: a successful Invoke has read rows.Err() and closed the
\* cursor a second time after the explicit close.
C14_Witness ==
    \E i \in Inv : /\ Succeeded(i)
                   /\ rows[i].late = {"Err", "Close"}
                   /\ rows[i].lateOps = 2
                   /\ rows[i].closeCalls = 2

\* the context of invocation i was cancelled while its rows were scanned
CancelledMidScan(i) == rows[i].cancelled

\* Invoke returned the cancellation: the iteration error of line 189 wraps
\* what rows.Err() reports, which is the cancellation
ReturnedCancellation(i) ==
    ret[i].err = ErrIter /\ rows[i].lasterr /\ rows[i].cancelled

C12_HandleUntouched ==
    \A h \in Handles : db[h] = OpenDb

\* C12 witness: an invocation has closed its cursor, with an error, and has
\* returned; the handle of the tool is open.
C12_Witness ==
    \E i \in Inv : /\ Done(i)
                   /\ ret[i].err = ErrClose
                   /\ rows[i].state = "closed"
                   /\ rows[i].closeCalls = 2
                   /\ db[tool.Db] = OpenDb

\* the tool Initialize assembles from the configuration
Assembled == BuildTool(config, Lookup(srcs, config.Source).rawS)

\* C18: the tool is immutable once Initialize has assembled it: no
\* operation changes its statement, parameters, authorization requirements,
\* handle or manifests, and Manifest and McpManifest return the manifests
\* Initialize computed.
C18_Immutable ==
    /\ [][initErr = NoErr => tool' = tool]_vars
    /\ [](initErr = NoErr => tool = Assembled)
    /\ [](lastCall.op = "Manifest" => lastCall.out = Assembled.manifest)
    /\ [](lastCall.op = "McpManifest" => lastCall.out = Assembled.mcpManifest)

\* C18 witness: Manifest is called after an invocation has run a query, and
\* returns the manifest with the three declared parameters.
C18_Witness ==
    /\ lastCall.op = "Manifest"
    /\ dataset # EmptyMap
    /\ Len(tool.AllParams) = 3
    /\ Len(lastCall.out.Parameters) = 3
    /\ lastCall.out = Assembled.manifest

\* C13: an invocation that succeeds with the input of an earlier successful
\* invocation, the dataset unchanged in between, returns the result that
\* one returned: the earlier invocation has left nothing that changes the
\* outcome of the later one.
C13_Idempotent ==
    \A i \in Inv : (Succeeded(i) /\ prev.set /\ prev.in = params[i]) =>
        ret[i].result = prev.result

\* C13 witness: a second invocation with the input of the first has
\* returned, as the first, the records of two rows.
C13_Witness ==
    \E i \in Inv : /\ Succeeded(i)
                   /\ prev.set
                   /\ prev.in = params[i]
                   /\ Len(prev.result.items) = 2
                   /\ Len(ret[i].result.items) = 2

\* the locals of invocation i
Frame(i) ==
    <<params[i], newStatement[i], sliceParams[i], rows[i], cols[i], values[i], result[i],
      submitted[i], ret[i]>>

\* a step is a step of one invocation and leaves the locals of the others
\* as they are
OwnLocalsOnly ==
    /\ \A i \in Inv : pc'[i] = pc[i] => Frame(i)' = Frame(i)
    /\ \A i, j \in Inv : i # j => (pc'[i] = pc[i] \/ pc'[j] = pc[j])

\* the result of a successful Invoke over query result res
Records(res) ==
    IF Len(res.data) = 0 THEN NilSlice
    ELSE [kind |-> "slice",
          items |-> [k \in DOMAIN res.data |-> RowMap(res.cols, res.data[k])]]

\* the outcomes Invoke has for input in when it runs alone on tool t
\* against the dataset data: the error of the parameters, or any failure
\* of the engine and the cursor, or the records of the query's rows
AloneOutcomes(t, in, data) ==
    LET x == ExtractParams(t, in)
        res == data[<<x.newStatement, x.sliceParams>>]
    IN IF x.err # NoErr
       THEN {[result |-> NilAny, err |-> x.err]}
       ELSE {[result |-> NilAny, err |-> e] :
                e \in {ErrExecute, ErrColumns, ErrClose, ErrIter}
                         \cup (IF Len(res.data) >= 1 THEN {ErrScan} ELSE {})}
            \cup {[result |-> Records(res), err |-> NoErr]}

\* the cursor, the buffer and the accumulator of invocation i are those of
\* its own query
OwnCursor(i) ==
    rows[i].state # "nil" =>
        LET res == dataset[<<newStatement[i], sliceParams[i]>>]
        IN /\ rows[i].cols = res.cols /\ rows[i].data = res.data
           /\ pc[i] \in {"next", "scan", "close", "err"} =>
                 /\ cols[i] = res.cols
                 /\ Len(values[i]) = Len(res.cols)
                 /\ \A k \in DOMAIN result[i].items :
                        result[i].items[k] = RowMap(res.cols, res.data[k])

\* C11: invocations of one tool that run at the same time do not disturb
\* each other: under every interleaving of their steps each has its own
\* cursor, scan buffer and accumulator, which no step of another invocation
\* changes, and what each returns is an outcome it has when it runs alone
\* against the same query results.
C11_ConcurrentInvocations ==
    /\ [][OwnLocalsOnly]_vars
    /\ [](\A i \in Inv : OwnCursor(i))
    /\ [](\A i \in Inv : Done(i) => ret[i] \in AloneOutcomes(tool, params[i], dataset))

\* C11 witness: two invocations with different inputs are both scanning
\* rows, one of them with a record appended already.
C11_Witness ==
    \E i, j \in Inv : /\ i # j
                      /\ pc[i] = "scan"
                      /\ pc[j] = "scan"
                      /\ params[i] # params[j]
                      /\ rows[i].pos = 2
                      /\ Len(result[i].items) = 1
                      /\ rows[j].cols # rows[i].cols

====
